---- MODULE Spec2Model ----
(***************************************************************************)
(* Model of the documentation synchronisation pipeline of                  *)
(* plugins/gitlab-skill/skills/gitlab-skill/scripts/sync-gitlab-docs.py:   *)
(* the cooldown gate (check_cooldown), the lock record store               *)
(* (update_lock_file), the orchestrator (update_docs) with its stages, the *)
(* publisher (atomic_replace) and the command entry point (main).          *)
(*                                                                         *)
(* The file system is the shared state: the lock file and its temporary    *)
(* file, the downloaded archive, the scratch directory references/ci-new,  *)
(* the published directory references/ci and SKILL.md.  Every file system  *)
(* call may fail with OSError, and a user interruption (KeyboardInterrupt) *)
(* or a kill of the process may arrive between any two steps.              *)
(***************************************************************************)
EXTENDS Integers, Sequences, FiniteSets, TLC

\* ---------------------------------------------------------------- bounds
\* Days on the model's clock: 0 .. MaxTime.
MaxTime == 4
\* Invocations started over one behaviour.
MaxRuns == 2
\* Failures of the environment (an OSError of a file system call, a failed
\* transfer, an interruption, a kill) over one behaviour.
MaxFaults == 1
\* Path components of a link target.
MaxDepth == 3

\* Tokens of a file content given to remove_hugo_shortcodes.
MaxLen == 4
\* Markdown files of a document tree given to generate_file_tree.
MaxFiles == 2
\* Lines of SKILL.md given to update_skill_index.
MaxLines == 3

\* ------------------------------------------------------------- constants
\* cooldown_period = timedelta(days=3)
CooldownDays == 3

\* One invoking flow in the sequential specification; the second identity
\* is a second invocation on the same working directory.
Procs == {1, 2}

\* Markdown files an archive may carry under doc/ci.
Names == {"a.md", "b.md"}

\* Top-level entries an archive may carry.
TopNames == {"top", "extra"}

\* ------------------------------------------------------------ lock file
\* The lock file as the file system holds it.  kind: "absent" (no file),
\* "record" (a JSON object), "garbage" (not parseable as JSON), "partial"
\* (a write that stopped before the whole text was out), "unreadable"
\* (read_text raises OSError).  A record's status is the value of
\* last_status ("missing" when the key is not there, "bogus" when it is
\* neither success nor failure); ts tells whether last_run parses ("ok"),
\* is not there ("missing") or does not parse ("invalid").
LockAbsent ==
    [kind |-> "absent", status |-> "missing", ts |-> "missing",
     last_run |-> 0, files_processed |-> 0]

LockRecord(status, ts, last_run, files) ==
    [kind |-> "record", status |-> status, ts |-> ts,
     last_run |-> last_run, files_processed |-> files]

LockBroken(kind) ==
    [kind |-> kind, status |-> "missing", ts |-> "missing",
     last_run |-> 0, files_processed |-> 0]

\* A record as update_lock_file writes it.
WellFormed(l) ==
    /\ l.kind = "record"
    /\ l.status \in {"success", "failure"}
    /\ l.ts = "ok"

\* Persisted data that is there and is not a record update_lock_file writes.
Malformed(l) == l.kind # "absent" /\ ~WellFormed(l)

\* A gate that reads the lock file before it looks at force.
check_cooldown_ForceLast(f, l, t) ==
    IF l.kind = "absent" THEN "true"
    ELSE IF l.kind # "record" THEN "UpdateError"
    ELSE IF l.status # "success" THEN "true"
    ELSE IF l.ts # "ok" THEN "UpdateError"
    ELSE IF f THEN "true"
    ELSE IF t - l.last_run < CooldownDays THEN "false"
    ELSE "true"

\* A gate that blocks after the cooldown instead of within it.
check_cooldown_Inverted(f, l, t) ==
    IF f THEN "true"
    ELSE IF l.kind = "absent" THEN "true"
    ELSE IF l.kind # "record" THEN "UpdateError"
    ELSE IF l.status # "success" THEN "true"
    ELSE IF l.ts # "ok" THEN "UpdateError"
    ELSE IF t - l.last_run > CooldownDays THEN "false"
    ELSE "true"

\* A gate that still blocks when exactly the cooldown has passed.
check_cooldown_Inclusive(f, l, t) ==
    IF f THEN "true"
    ELSE IF l.kind = "absent" THEN "true"
    ELSE IF l.kind # "record" THEN "UpdateError"
    ELSE IF l.status # "success" THEN "true"
    ELSE IF l.ts # "ok" THEN "UpdateError"
    ELSE IF t - l.last_run <= CooldownDays THEN "false"
    ELSE "true"

\* check_cooldown(working_dir, force), as a function of the lock file and
\* the clock: "true", "false", or "UpdateError" when it raises.
check_cooldown(f, l, t) ==
    IF f THEN "true"
    ELSE IF l.kind = "absent" THEN "true"
    ELSE IF l.kind # "record" THEN "UpdateError"
    ELSE IF l.status # "success" THEN "true"
    ELSE IF l.ts # "ok" THEN "UpdateError"
    ELSE IF t - l.last_run < CooldownDays THEN "false"
    ELSE "true"

\* ------------------------------------------------------------- the trees
\* A markdown file: its name, the invocation whose archive it came from (the
\* identity of an invocation that is running, 0 for any invocation that has
\* ended and for what was there before the first), and whether
\* groom_markdown_files has rewritten it.
MkFile(n, g, k) == [name |-> n, gen |-> g, groomed |-> k]

\* The files as a later invocation p finds them: what an earlier invocation
\* of the same identity left is old.
Aged(files, p) ==
    {IF f.gen = p THEN [f EXCEPT !.gen = 0] ELSE f : f \in files}

\* A directory of markdown files (references/ci).
NoDir == [exists |-> FALSE, files |-> {}]
Dir(fs) == [exists |-> TRUE, files |-> fs]

\* What a remote archive unpacks to: its top-level entries, whether the
\* entry "top" is a directory, whether top/doc/ci is there, and the names of
\* the markdown files under it.
Shape(tops, isDir, docs, names) ==
    [tops |-> tops, topIsDir |-> isDir, hasDocs |-> docs, names |-> names]

\* Archives the remote end may serve: well-formed ones, and one for each
\* way validate_extraction rejects.
GoodArchives == {Shape({"top"}, TRUE, TRUE, ns) : ns \in (SUBSET Names) \ {{}}}

BadArchives ==
    {Shape({}, FALSE, FALSE, {}),
     Shape({"top"}, FALSE, FALSE, {}),
     Shape({"top"}, TRUE, FALSE, {}),
     Shape({"top"}, TRUE, TRUE, {}),
     Shape({"top", "extra"}, TRUE, TRUE, Names)}

Archives == GoodArchives \cup BadArchives

\* The archive file gitlab-ci-docs.tar.gz.
NoArchive ==
    [exists |-> FALSE, complete |-> FALSE, gen |-> 0,
     shape |-> Shape({}, FALSE, FALSE, {})]

\* The scratch directory references/ci-new.
NoScratch ==
    [exists |-> FALSE, tops |-> {}, topIsDir |-> FALSE, hasDocs |-> FALSE,
     files |-> {}]

\* tar.extractall(path=extract_to) of the entries `names` of an archive of
\* shape sh, fetched by invocation g, over what the directory holds: an
\* extracted file replaces the file of the same name.
Extracted(s, sh, names, g) ==
    [exists |-> TRUE,
     tops |-> s.tops \cup sh.tops,
     topIsDir |-> IF "top" \in sh.tops THEN sh.topIsDir ELSE s.topIsDir,
     hasDocs |-> s.hasDocs \/ sh.hasDocs,
     files |-> {f \in s.files : f.name \notin names}
               \cup {MkFile(n, g, FALSE) : n \in names}]

\* A validator that looks for top/doc/ci and does not count the entries.
validate_extraction_Lenient(s) ==
    IF s.tops = {} THEN "ValidationError"
    ELSE IF ~s.topIsDir THEN "ValidationError"
    ELSE IF ~("top" \in s.tops /\ s.hasDocs) THEN "ValidationError"
    ELSE IF s.files = {} THEN "ValidationError"
    ELSE "ok"

\* validate_extraction(extract_dir): "ok" when it returns docs_path,
\* "ValidationError" when it raises.
validate_extraction(s) ==
    IF s.tops = {} THEN "ValidationError"
    ELSE IF Cardinality(s.tops) # 1 \/ ~s.topIsDir THEN "ValidationError"
    ELSE IF ~("top" \in s.tops /\ s.hasDocs) THEN "ValidationError"
    ELSE IF s.files = {} THEN "ValidationError"
    ELSE "ok"

\* class UpdateError and its subclasses.
UpdateErrors ==
    {"UpdateError", "DownloadError", "ExtractionError", "ValidationError",
     "GroomingError"}

\* The stages of one invocation, in the order main and update_docs call
\* them.
StageOrder ==
    <<"gate", "fetch", "extract", "validate", "groom", "index", "publish",
      "lock">>

\* ----------------------------------------------------- transform_links
\* Directories are absolute paths, written as the sequence of their names.
\* docs_root is .../doc/ci and docs_root.parent is .../doc; "w" stands for
\* what lies above them (the working directory, references/ci-new and the
\* archive's top-level directory).
DocsRoot == <<"w", "doc", "ci">>

DocDir == <<"w", "doc">>

\* The directories of the markdown files that hold the links:
\* current_file.parent for doc/ci/index.md and for doc/ci/yaml/index.md.
FileDirs == {DocsRoot, DocsRoot \o <<"yaml">>}

\* A link target as written: how it starts, and the path components that
\* follow, separated by "/".  "" starts a relative path, "/" an absolute
\* path, "#" an anchor; the others are URLs.
Schemes == {"", "/", "#", "http://", "https://", "mailto:", "ftp://"}

PathNames == {"..", ".", "x.md", "yaml", "api"}

Target(scheme, comps) == [scheme |-> scheme, comps |-> comps, query |-> ""]

\* Path.resolve() on a path without symbolic links: "." is dropped and ".."
\* removes the name before it (the parent of the root is the root).
RECURSIVE Resolve(_, _)
Resolve(base, comps) ==
    IF comps = << >> THEN base
    ELSE IF Head(comps) = "." THEN Resolve(base, Tail(comps))
    ELSE IF Head(comps) = ".."
         THEN Resolve(IF base = << >> THEN base
                      ELSE SubSeq(base, 1, Len(base) - 1), Tail(comps))
    ELSE Resolve(Append(base, Head(comps)), Tail(comps))

\* current_file.parent / link_path: an absolute link_path replaces the
\* directory; in any other text every "/" separates two names and a repeated
\* "/" counts once, so that "ftp://h" is the relative path ftp:/h.
Joined(dir, t) ==
    IF t.scheme = "/" THEN t.comps
    ELSE IF t.scheme = "" THEN dir \o t.comps
    ELSE dir \o <<"ftp:">> \o t.comps

\* link_target.relative_to(other) succeeds
IsRelativeTo(path, other) ==
    /\ Len(other) <= Len(path)
    /\ SubSeq(path, 1, Len(other)) = other

\* str(link_target.relative_to(other)): the relative path of a directory to
\* itself is ".".
RelativeTo(path, other) ==
    IF Len(path) = Len(other) THEN <<".">>
    ELSE SubSeq(path, Len(other) + 1, Len(path))

\* replace_link(match) for a link with target t in a file of directory dir:
\* the target the rewritten link carries.
replace_link(t, dir) ==
    IF t.scheme \in {"http://", "https://", "#", "mailto:"} THEN t
    ELSE LET link_target == Resolve(<< >>, Joined(dir, t)) IN
         IF IsRelativeTo(link_target, DocsRoot)
         THEN Target("./", RelativeTo(link_target, DocsRoot))
         ELSE IF IsRelativeTo(link_target, DocDir)
         THEN [scheme |-> "https://gitlab.com/gitlab-org/gitlab/-/raw/master/doc/",
               comps |-> RelativeTo(link_target, DocDir),
               query |-> "?ref_type=heads"]
         ELSE t

\* link_path = match.group(2) of a link replace_link wrote, as LINK_PATTERN
\* reads it back: "./" and the path from the document root is a relative
\* path whose first name is "."; any other target reads as it was written.
link_path(t) ==
    IF t.scheme = "./" THEN Target("", <<".">> \o t.comps) ELSE t

\* replace_link(match) for a link replace_link wrote: the raw URL starts
\* with "https://" and is skipped.
replace_link_again(t, dir) ==
    IF t.query = "?ref_type=heads" THEN t
    ELSE replace_link(link_path(t), dir)

\* ----------------------------------------------- remove_hugo_shortcodes
\* A content is a sequence of tokens: an opening tag {{< name >}} or
\* {{% name %}}, a closing tag {{< /name >}} or {{% /name %}}, a piece of
\* text or a line break.  The two bracket styles are told apart by the two
\* compiled patterns.
ANGLE_BRACKET_SHORTCODE_PATTERN == "<"

PERCENT_SHORTCODE_PATTERN == "%"

Styles == {ANGLE_BRACKET_SHORTCODE_PATTERN, PERCENT_SHORTCODE_PATTERN}

\* (\w+)
TagNames == {"details", "history"}

Tag(kind, style, name) == [kind |-> kind, style |-> style, name |-> name]

Text(s) == [kind |-> "text", style |-> "", name |-> s]

\* A line break is text for both patterns (re.DOTALL).
Tokens ==
    {Tag(k, st, n) : k \in {"open", "close"}, st \in Styles, n \in TagNames}
    \cup {Text("t"), Text("\n")}

Contents == UNION {[1..n -> Tokens] : n \in 0..MaxLen}

\* The closing tags that may end a match starting at the opening tag i:
\* same style, the name captured by the opening tag (\1).
Closings(style, content, i) ==
    {j \in (i + 1)..Len(content) :
        content[j] = Tag("close", style, content[i].name)}

\* A greedy .* : the match ends at the farthest closing tag.
ClosingTag_Greedy(style, content, i) ==
    CHOOSE j \in Closings(style, content, i) :
        \A k \in Closings(style, content, i) : k <= j

\* .*? is non-greedy: the match ends at the nearest closing tag.
ClosingTag(style, content, i) ==
    CHOOSE j \in Closings(style, content, i) :
        \A k \in Closings(style, content, i) : j <= k

\* pattern.sub("", content) from token i on: matches are found from left
\* to right and do not overlap; an opening tag that no closing tag follows
\* matches nothing and stays, like every other token outside a match.
RECURSIVE ShortcodeSub(_, _, _)
ShortcodeSub(style, content, i) ==
    IF i > Len(content) THEN << >>
    ELSE IF /\ content[i].kind = "open"
            /\ content[i].style = style
            /\ Closings(style, content, i) # {}
    THEN ShortcodeSub(style, content, ClosingTag(style, content, i) + 1)
    ELSE <<content[i]>> \o ShortcodeSub(style, content, i + 1)

\* The angle bracket pattern first, the percent pattern on its result.
remove_hugo_shortcodes(content) ==
    ShortcodeSub(PERCENT_SHORTCODE_PATTERN,
                 ShortcodeSub(ANGLE_BRACKET_SHORTCODE_PATTERN, content, 1), 1)

\* --------------------------------------------------- generate_file_tree
\* A markdown file of the document tree: its path from docs_dir, written as
\* the sequence of its names, and its leading metadata block: block is
\* "none" (the file does not start with one), "broken" (yaml.safe_load
\* raises or does not return a dict) or "yaml"; title and description are
\* the values of the two keys, "none" for a key that is not there.
MdFile(path, block, title, description) ==
    [path |-> path, block |-> block, title |-> title,
     description |-> description]

\* The names of the document tree, in the order Python compares strings.
NameOrder == <<"a", "a.md", "b", "b.md">>

Rank(n) == CHOOSE i \in 1..Len(NameOrder) : NameOrder[i] = n

\* Path.__lt__: the sequences of names are compared name by name.
RECURSIVE PathLess(_, _)
PathLess(p, q) ==
    IF p = << >> THEN q # << >>
    ELSE IF q = << >> THEN FALSE
    ELSE IF Head(p) = Head(q) THEN PathLess(Tail(p), Tail(q))
    ELSE Rank(Head(p)) < Rank(Head(q))

\* A builder that takes the paths in the order the file system lists them.
sorted_AsListed(s) == s

\* sorted(paths)
RECURSIVE sorted(_)
sorted(s) ==
    IF s = << >> THEN << >>
    ELSE LET least == CHOOSE x \in {s[i] : i \in 1..Len(s)} :
                         \A i \in 1..Len(s) : s[i] = x \/ PathLess(x, s[i])
         IN  <<least>> \o sorted(SelectSeq(s, LAMBDA x : x # least))

\* file.parent
Parent(path) == SubSeq(path, 1, Len(path) - 1)

\* dirs.keys(): the directories that hold a markdown file, in the order of
\* their first file in md_files.
RECURSIVE Keys(_)
Keys(md_files) ==
    IF md_files = << >> THEN << >>
    ELSE LET first == Parent(Head(md_files))
         IN  <<first>> \o
             Keys(SelectSeq(Tail(md_files), LAMBDA p : Parent(p) # first))

\* A reader that finds no metadata block in any file.
extract_frontmatter_Blind(f) == [title |-> "none", description |-> "none"]

\* extract_frontmatter(file_path): the keys of the returned dict.
extract_frontmatter(f) ==
    IF f.block = "yaml"
    THEN [title |-> f.title, description |-> f.description]
    ELSE [title |-> "none", description |-> "none"]

\* The lines of one file: the link with its title, and the description on
\* the next line if there is one and it is not empty.
FileLines(f, depth) ==
    LET frontmatter == extract_frontmatter(f)
        title == IF frontmatter.title = "none" THEN f.path[Len(f.path)]
                 ELSE frontmatter.title
    IN  <<[kind |-> "file", indent |-> depth + 1, text |-> title,
           path |-> f.path]>>
        \o (IF frontmatter.description \in {"none", ""} THEN << >>
            ELSE <<[kind |-> "description", indent |-> depth + 3,
                    text |-> frontmatter.description, path |-> f.path]>>)

\* The lines of the files in one directory, in the given order.
RECURSIVE FilesLines(_, _, _)
FilesLines(tree, files, depth) ==
    IF files = << >> THEN << >>
    ELSE FileLines(CHOOSE f \in tree : f.path = Head(files), depth)
         \o FilesLines(tree, Tail(files), depth)

\* The lines of the directories in the given order: the line of the
\* directory unless it is docs_dir, then its files, sorted.
RECURSIVE DirsLines(_, _, _)
DirsLines(tree, md_files, dirs) ==
    IF dirs = << >> THEN << >>
    ELSE LET rel_dir == Head(dirs)
             depth == Len(rel_dir)
         IN  (IF rel_dir = << >> THEN << >>
              ELSE <<[kind |-> "directory", indent |-> depth,
                      text |-> rel_dir[depth], path |-> rel_dir]>>)
             \o FilesLines(tree,
                           sorted(SelectSeq(md_files,
                                            LAMBDA p : Parent(p) = rel_dir)),
                           depth)
             \o DirsLines(tree, md_files, Tail(dirs))

\* generate_file_tree(docs_dir) line by line, for the files of tree as
\* docs_dir.rglob("*.md") lists them (listed: their paths in the order of
\* the file system).
tree_lines(tree, listed) ==
    LET md_files == sorted(listed)
    IN  IF md_files = << >>
        THEN <<[kind |-> "empty", indent |-> 0,
                text |-> "*No markdown files found*", path |-> << >>]>>
        ELSE <<[kind |-> "fence", indent |-> 0, text |-> "text",
                path |-> << >>],
               [kind |-> "directory", indent |-> 0, text |-> "ci",
                path |-> << >>]>>
             \o DirsLines(tree, md_files, sorted(Keys(md_files)))
             \o <<[kind |-> "fence", indent |-> 0, text |-> "",
                   path |-> << >>]>>

\* --------------------------------------------------- update_skill_index
\* SKILL.md is a sequence of lines: the heading "## Documentation Index"
\* ("index"), another heading of level 2 ("h2"), of level 1 ("h1") or of
\* level 3 ("h3"), a line of text, an empty line, or, as one line, an index
\* text ("tree").  eol tells whether the last line ends with a line break.
Line(kind) == [kind |-> kind, text |-> ""]

TreeLine(text) == [kind |-> "tree", text |-> text]

LineKinds == {"index", "h2", "h1", "h3", "text", "blank"}

\* The index texts generate_file_tree may return: one without a backslash,
\* one whose title holds "\1", one whose title holds "\p".
FileTrees == {"plain", "\\1", "\\p"}

\* The replacement f"## Documentation Index\n\n{file_tree}\n" as re.sub
\* expands it: "\1" is the first group of the match (the heading), "\p" is
\* no escape re knows ("re.error").
Expand(file_tree) ==
    IF file_tree = "\\1" THEN "## Documentation Index"
    ELSE IF file_tree = "\\p" THEN "re.error"
    ELSE file_tree

\* section_pattern matches at line i: the heading and a line break after it.
SectionAt(content, eol, i) ==
    content[i].kind = "index" /\ (i < Len(content) \/ eol)

\* (.*?)(?=^## |\Z): the match ends before the next line that starts with
\* "## ", or at the end of the text.
SectionEnd(content, i) ==
    IF \E j \in (i + 1)..Len(content) : content[j].kind \in {"index", "h2"}
    THEN CHOOSE j \in (i + 1)..Len(content) :
            /\ content[j].kind \in {"index", "h2"}
            /\ \A k \in (i + 1)..(j - 1) : content[k].kind \notin {"index", "h2"}
    ELSE Len(content) + 1

\* section_pattern.sub(replacement, content) from line i on: every match is
\* replaced.
RECURSIVE SectionSub(_, _, _, _)
SectionSub(content, eol, i, replacement) ==
    IF i > Len(content) THEN << >>
    ELSE IF SectionAt(content, eol, i)
    THEN replacement
         \o SectionSub(content, eol, SectionEnd(content, i), replacement)
    ELSE <<content[i]>> \o SectionSub(content, eol, i + 1, replacement)

\* content.rstrip(): the empty lines at the end go.
RECURSIVE rstrip(_)
rstrip(content) ==
    IF content # << >> /\ content[Len(content)].kind = "blank"
    THEN rstrip(SubSeq(content, 1, Len(content) - 1))
    ELSE content

\* update_skill_index(skill_file, file_tree) on a SKILL.md that is there:
\* the text written back, or the exception raised before the write.
update_skill_index(content, eol, file_tree) ==
    IF \E i \in 1..Len(content) : SectionAt(content, eol, i)
    THEN IF Expand(file_tree) = "re.error"
         THEN [raised |-> "re.error", content |-> content, eol |-> eol]
         ELSE [raised |-> "none",
               content |->
                  SectionSub(content, eol, 1,
                             <<Line("index"), Line("blank"),
                               TreeLine(Expand(file_tree)), Line("blank")>>),
               eol |->
                  eol \/ \E i \in 1..Len(content) :
                            /\ SectionAt(content, eol, i)
                            /\ SectionEnd(content, i) = Len(content) + 1]
    ELSE [raised |-> "none",
          content |->
             (IF rstrip(content) = << >> THEN <<Line("blank")>> ELSE << >>)
             \o rstrip(content)
             \o <<Line("blank"), Line("index"), Line("blank"),
                  TreeLine(file_tree), Line("blank")>>,
          eol |-> TRUE]

\* ------------------------------------------------- groom_markdown_files
\* The text of a link up to its target, "[t](", and the ")" that ends the
\* target: with them a content holds links whose targets are made of text
\* and of tags.
LinkOpen == [kind |-> "link", style |-> "", name |-> "[t]("]

LinkClose == [kind |-> "link", style |-> "", name |-> ")"]

GroomTokens ==
    {LinkOpen, LinkClose, Text("t")}
    \cup {Tag(k, st, "details") : k \in {"open", "close"}, st \in Styles}

\* ([^)]+)\): the target ends at the nearest ")".
LinkEnds(content, i) == {j \in (i + 1)..Len(content) : content[j] = LinkClose}

\* LINK_PATTERN.sub(replace_link, content) from token i on, in a file of
\* the directory docs_root: a link needs a target that is not empty; the
\* targets here are relative paths with no "." and no ".." in them, which
\* replace_link gives back behind "./".
RECURSIVE LinkSub(_, _)
LinkSub(content, i) ==
    IF i > Len(content) THEN << >>
    ELSE IF /\ content[i] = LinkOpen
            /\ LinkEnds(content, i) # {}
            /\ i + 1 \notin LinkEnds(content, i)
    THEN LET j == CHOOSE e \in LinkEnds(content, i) :
                     \A k \in LinkEnds(content, i) : e <= k
         IN  <<LinkOpen,
               Text(replace_link(Target("", <<"t">>), DocsRoot).scheme)>>
             \o SubSeq(content, i + 1, j)
             \o LinkSub(content, j + 1)
    ELSE <<content[i]>> \o LinkSub(content, i + 1)

transform_links(content) == LinkSub(content, 1)

\* A groomer that removes the shortcodes before it rewrites the links.
GroomSteps_ShortcodesFirst ==
    <<"read_text", "remove_hugo_shortcodes", "transform_links", "write_text">>

\* The statements of the loop body of groom_markdown_files, in their order.
GroomSteps ==
    <<"read_text", "transform_links", "remove_hugo_shortcodes", "write_text">>

\* ----------------------------------------------------------------- state
VARIABLES
    now,      \* datetime.now(UTC), in days
    runs,     \* invocations started so far
    faults,   \* failures of the environment so far
    lock,     \* .sync-gitlab-docs.lock
    lockTmp,  \* .sync-gitlab-docs.lock.tmp
    archive,  \* gitlab-ci-docs.tar.gz
    scratch,  \* references/ci-new
    ci,       \* references/ci, the published tree
    skill,    \* SKILL.md and the listing under its Documentation Index
    pc,       \* where each invocation is
    force,    \* main's --force
    cleanup,  \* not main's --no-cleanup
    exc,      \* the exception propagating out of update_docs, or "none"
    count,    \* processed_count of update_docs
    lw,       \* the update_lock_file call in progress
    exit,     \* the process's exit status, -1 while it runs
    outcome,  \* how the invocation ended
    stages,   \* the stages the invocation started, in order
    snap,     \* what the invocation saw when it started and at its gate
    succAt,   \* last_run of the latest success record written, -1 if none
    doc       \* the text a transformation of groom_markdown_files works on

vars ==
    <<now, runs, faults, lock, lockTmp, archive, scratch, ci, skill, pc,
      force, cleanup, exc, count, lw, exit, outcome, stages, snap, succAt,
      doc>>

fsVars == <<lock, lockTmp, archive, scratch, ci, skill>>

\* One more failure of the environment, while the bound allows it.
Fault == faults < MaxFaults /\ faults' = faults + 1

NoFault == faults' = faults

NoWrite ==
    [status |-> "none", files |-> 0, at |-> 0, mode |-> "none", code |-> 0,
     before |-> LockAbsent, saved |-> FALSE]

\* What an invocation saw and did: the published tree, the lock file and
\* the latest recorded success when it started, how the invocation before it
\* ended; the lock file, the clock and the answer of its cooldown gate; the
\* stage that raised; whether atomic_replace was called, the tree it was
\* given, and whether it returned; the status of the lock record it renamed
\* into place.
NoSnap ==
    [ci |-> NoDir, lock |-> LockAbsent, succ |-> -1, prev |-> "none",
     gateRes |-> "none", gateLock |-> LockAbsent, gateNow |-> 0,
     failedAt |-> "none", pub |-> FALSE, tree |-> NoDir, done |-> FALSE,
     wrote |-> "none"]

\* No text is being transformed.
NoDoc == [kind |-> "none"]

\* The generation published before the first invocation.
OldTree == Dir({MkFile(n, 0, TRUE) : n \in Names})

\* SKILL.md: whether the file is there, and the files its index lists.
Skill(e, files) == [exists |-> e, index |-> files]

\* generate_file_tree(docs_dir): one entry for each markdown file.
generate_file_tree(files) == {[name |-> f.name, gen |-> f.gen] : f \in files}

\* Persisted data that is not a record update_lock_file writes.
BrokenLocks ==
    {LockBroken("garbage"),
     LockBroken("unreadable"),
     LockRecord("missing", "ok", 0, 0),
     LockRecord("bogus", "ok", 0, 0),
     LockRecord("failure", "missing", 0, 0),
     LockRecord("success", "missing", 0, 2),
     LockRecord("success", "invalid", 0, 2)}

\* Every invocation is idle, with nothing in progress.
InitProcs ==
    /\ pc = [p \in Procs |-> "idle"]
    /\ force = [p \in Procs |-> FALSE]
    /\ cleanup = [p \in Procs |-> TRUE]
    /\ exc = [p \in Procs |-> "none"]
    /\ count = [p \in Procs |-> 0]
    /\ lw = [p \in Procs |-> NoWrite]
    /\ exit = [p \in Procs |-> -1]
    /\ outcome = [p \in Procs |-> "none"]
    /\ stages = [p \in Procs |-> << >>]
    /\ snap = [p \in Procs |-> NoSnap]

\* The working directory before the first invocation: a first run (no lock
\* file, nothing published), or what an earlier run left at day 0 (a
\* success record and its tree, or a failure record), or a lock file that
\* is not a record of update_lock_file.
InitDisk(Locks) ==
    /\ now = 0
    /\ runs = 0
    /\ faults = 0
    /\ lockTmp = LockAbsent
    /\ archive = NoArchive
    /\ scratch = NoScratch
    /\ \/ /\ lock = LockAbsent
          /\ ci = NoDir
          /\ skill \in {Skill(FALSE, {}), Skill(TRUE, {})}
       \/ /\ lock \in Locks
          /\ ci = OldTree
          /\ skill = Skill(TRUE, generate_file_tree(ci.files))
    /\ succAt = IF lock.kind = "record" /\ lock.status = "success" /\ lock.ts = "ok"
                THEN lock.last_run ELSE -1
    /\ doc = NoDoc

Init ==
    /\ InitDisk({LockRecord("success", "ok", 0, 2),
                 LockRecord("failure", "ok", 0, 0)} \cup BrokenLocks)
    /\ InitProcs

\* ------------------------------------------------------------- the clock
\* A day passes between two invocations.
Tick ==
    /\ \A p \in Procs : pc[p] = "idle"
    /\ now < MaxTime
    /\ now' = now + 1
    /\ UNCHANGED <<runs, faults, fsVars, pc, force, cleanup, exc, count, lw,
                   exit, outcome, stages, snap, succAt, doc>>

\* ------------------------------------------------------------------ main
\* The process ends: sys.exit(code), or an exception nobody caught.
Exited(p, code, how) ==
    /\ pc' = [pc EXCEPT ![p] = "exited"]
    /\ exit' = [exit EXCEPT ![p] = code]
    /\ outcome' = [outcome EXCEPT ![p] = how]

\* main is called: typer has parsed --force and --no-cleanup (cleanup is
\* drawn from Cleanups).  What an earlier invocation left on disk is old
\* content from here on.
StartWith(p, Cleanups) ==
    /\ pc[p] = "idle"
    /\ runs < MaxRuns
    /\ runs' = runs + 1
    /\ \E f \in BOOLEAN, c \in Cleanups :
          /\ force' = [force EXCEPT ![p] = f]
          /\ cleanup' = [cleanup EXCEPT ![p] = c]
    /\ pc' = [pc EXCEPT ![p] = "gate"]
    /\ ci' = [ci EXCEPT !.files = Aged(@, p)]
    /\ scratch' = [scratch EXCEPT !.files = Aged(@, p)]
    /\ skill' = [skill EXCEPT !.index = Aged(@, p)]
    /\ archive' = [archive EXCEPT !.gen = IF @ = p THEN 0 ELSE @]
    /\ snap' = [snap EXCEPT ![p] =
                  [NoSnap EXCEPT !.ci = [ci EXCEPT !.files = Aged(@, p)],
                                 !.lock = lock, !.succ = succAt,
                                 !.prev = outcome[p]]]
    /\ outcome' = [outcome EXCEPT ![p] = "none"]
    /\ UNCHANGED <<now, faults, lock, lockTmp, exc, count, lw, exit, stages,
                   succAt, doc>>

Start(p) == StartWith(p, BOOLEAN)

\* The process is gone: nothing of the invocation is left but the files
\* and how it ended.
Reap(p) ==
    /\ pc[p] = "exited"
    /\ pc' = [pc EXCEPT ![p] = "idle"]
    /\ force' = [force EXCEPT ![p] = FALSE]
    /\ cleanup' = [cleanup EXCEPT ![p] = TRUE]
    /\ exc' = [exc EXCEPT ![p] = "none"]
    /\ count' = [count EXCEPT ![p] = 0]
    /\ lw' = [lw EXCEPT ![p] = NoWrite]
    /\ exit' = [exit EXCEPT ![p] = -1]
    /\ stages' = [stages EXCEPT ![p] = << >>]
    /\ snap' = [snap EXCEPT ![p] = NoSnap]
    /\ UNCHANGED <<now, runs, faults, fsVars, outcome, succAt, doc>>

\* A gate that removes a lock file it cannot parse.
GateFiles_DropBroken ==
    /\ lock' = IF lock.kind \in {"absent", "record"} THEN lock ELSE LockAbsent
    /\ UNCHANGED <<lockTmp, archive, scratch, ci, skill>>

\* What check_cooldown does to the files: lock_file.exists() and
\* lock_file.read_text() read the lock file, and nothing is written.
GateFiles == UNCHANGED fsVars

\* A gate that lets one invocation work at a time: it ends the invocation
\* when another one is past its gate.
CheckCooldown_Exclusive(p) ==
    /\ pc[p] = "gate"
    /\ stages' = [stages EXCEPT ![p] = Append(@, "gate")]
    /\ LET res == IF \E q \in Procs \ {p} : pc[q] \notin {"idle", "gate", "exited"}
                  THEN "false"
                  ELSE check_cooldown(force[p], lock, now) IN
          /\ snap' = [snap EXCEPT ![p].gateRes = res, ![p].gateLock = lock,
                                  ![p].gateNow = now,
                                  ![p].failedAt =
                                     IF res = "UpdateError" THEN "gate" ELSE @]
          /\ \/ /\ res = "true"
                /\ pc' = [pc EXCEPT ![p] = "mkrefs"]
                /\ UNCHANGED <<exit, outcome, exc>>
             \/ /\ res = "false"
                /\ Exited(p, 0, "Noop")
                /\ UNCHANGED exc
             \/ /\ res = "UpdateError"
                /\ exc' = [exc EXCEPT ![p] = "UpdateError"]
                /\ Exited(p, 1, "Failed")
    /\ GateFiles
    /\ UNCHANGED <<now, runs, faults, force, cleanup, count, lw, succAt, doc>>

\* if not check_cooldown(resolved_dir, force): raise typer.Exit(code=0)
\* An UpdateError of check_cooldown is raised outside main's try.
CheckCooldown(p) ==
    /\ pc[p] = "gate"
    /\ stages' = [stages EXCEPT ![p] = Append(@, "gate")]
    /\ LET res == check_cooldown(force[p], lock, now) IN
          /\ snap' = [snap EXCEPT ![p].gateRes = res, ![p].gateLock = lock,
                                  ![p].gateNow = now,
                                  ![p].failedAt =
                                     IF res = "UpdateError" THEN "gate" ELSE @]
          /\ \/ /\ res = "true"
                /\ pc' = [pc EXCEPT ![p] = "mkrefs"]
                /\ UNCHANGED <<exit, outcome, exc>>
             \/ /\ res = "false"
                /\ Exited(p, 0, "Noop")
                /\ UNCHANGED exc
             \/ /\ res = "UpdateError"
                /\ exc' = [exc EXCEPT ![p] = "UpdateError"]
                /\ Exited(p, 1, "Failed")
    /\ GateFiles
    /\ UNCHANGED <<now, runs, faults, force, cleanup, count, lw, succAt, doc>>

\* The user interrupts check_cooldown: the KeyboardInterrupt is raised
\* outside main's try, and typer ends the process with "Aborted!" and exit
\* status 1.
GateInterrupted(p) ==
    /\ pc[p] = "gate"
    /\ Fault
    /\ stages' = [stages EXCEPT ![p] = Append(@, "gate")]
    /\ exc' = [exc EXCEPT ![p] = "KeyboardInterrupt"]
    /\ Exited(p, 1, "Interrupted")
    /\ GateFiles
    /\ UNCHANGED <<now, runs, force, cleanup, count, lw, snap, succAt, doc>>

\* ----------------------------------------------------------- update_docs
\* An exception leaving the try body of update_docs: an UpdateError is
\* re-raised as it is, any other Exception is wrapped into UpdateError, and
\* a KeyboardInterrupt passes both except clauses.
Wrapped(e) ==
    IF e \in UpdateErrors \cup {"KeyboardInterrupt"} THEN e ELSE "UpdateError"

\* An orchestrator that drops the exception and runs the stage again.
TryRaise_Retry(p, e, st) ==
    /\ exc' = [exc EXCEPT ![p] = "none"]
    /\ pc' = pc
    /\ snap' = snap

\* The try body raises e in stage st: the finally clause runs next.
TryRaise(p, e, st) ==
    /\ exc' = [exc EXCEPT ![p] = Wrapped(e)]
    /\ pc' = [pc EXCEPT ![p] = "cleanup_archive"]
    /\ snap' = [snap EXCEPT ![p].failedAt = st]

\* The stage ends well: the next statement of the try body runs.
Goto(p, next) ==
    /\ pc' = [pc EXCEPT ![p] = next]
    /\ UNCHANGED <<exc, snap>>

\* references_dir.mkdir(parents=True, exist_ok=True), before the try: an
\* OSError leaves update_docs as it is and main does not catch it; an
\* interruption reaches main's except KeyboardInterrupt.
MkRefs(p) ==
    /\ pc[p] = "mkrefs"
    /\ \/ /\ NoFault
          /\ pc' = [pc EXCEPT ![p] = "fetch"]
          /\ UNCHANGED <<exc, exit, outcome>>
       \/ /\ Fault
          /\ exc' = [exc EXCEPT ![p] = "OSError"]
          /\ Exited(p, 1, "Failed")
       \/ /\ Fault
          /\ exc' = [exc EXCEPT ![p] = "KeyboardInterrupt"]
          /\ pc' = [pc EXCEPT ![p] = "ret"]
          /\ UNCHANGED <<exit, outcome>>
    /\ UNCHANGED <<now, runs, fsVars, force, cleanup, count, lw, stages,
                   snap, succAt, doc>>

\* await download_archive(GITLAB_CI_DOCS_URL, archive_path), the remote end
\* serving one of the archives of Menu.
DownloadFrom(p, Menu) ==
    /\ pc[p] = "fetch"
    /\ stages' = [stages EXCEPT ![p] = Append(@, "fetch")]
    /\ \/ \* the whole body is streamed to the file
          /\ NoFault
          /\ \E sh \in Menu :
                archive' = [exists |-> TRUE, complete |-> TRUE, gen |-> p,
                            shape |-> sh]
          /\ Goto(p, "extract")
       \/ \* raise_for_status or the transport fails before the file is opened
          /\ Fault
          /\ \E e \in {"DownloadError", "KeyboardInterrupt"} :
                TryRaise(p, e, "fetch")
          /\ UNCHANGED archive
       \/ \* the stream or the write fails after the file was opened
          /\ Fault
          /\ \E e \in {"DownloadError", "KeyboardInterrupt"} :
                TryRaise(p, e, "fetch")
          /\ archive' = [NoArchive EXCEPT !.exists = TRUE, !.gen = p]
    /\ UNCHANGED <<now, runs, lock, lockTmp, scratch, ci, skill, force,
                   cleanup, count, lw, exit, outcome, succAt, doc>>

DownloadArchive(p) == DownloadFrom(p, Archives)

\* ci_new_dir.mkdir(parents=True, exist_ok=True)
\* extract_archive(archive_path, ci_new_dir)
ExtractArchive(p) ==
    /\ pc[p] = "extract"
    /\ stages' = [stages EXCEPT ![p] = Append(@, "extract")]
    /\ \/ \* mkdir raises OSError
          /\ Fault
          /\ TryRaise(p, "OSError", "extract")
          /\ UNCHANGED scratch
       \/ \* the archive is not a whole gzip-compressed tar file
          /\ NoFault
          /\ ~(archive.exists /\ archive.complete)
          /\ TryRaise(p, "ExtractionError", "extract")
          /\ scratch' = [scratch EXCEPT !.exists = TRUE]
       \/ /\ NoFault
          /\ archive.exists /\ archive.complete
          /\ scratch' = Extracted(scratch, archive.shape, archive.shape.names,
                                  archive.gen)
          /\ Goto(p, "validate")
       \/ \* extractall stops before the markdown files, or part of the way
          /\ Fault
          /\ archive.exists /\ archive.complete
          /\ \E e \in {"ExtractionError", "KeyboardInterrupt"} :
                TryRaise(p, e, "extract")
          /\ \/ scratch' = [scratch EXCEPT !.exists = TRUE]
             \/ \E ns \in SUBSET archive.shape.names :
                   /\ ns # archive.shape.names
                   /\ scratch' = Extracted(scratch, archive.shape, ns,
                                           archive.gen)
    /\ UNCHANGED <<now, runs, lock, lockTmp, archive, ci, skill, force,
                   cleanup, count, lw, exit, outcome, succAt, doc>>

\* docs_path = validate_extraction(ci_new_dir)
\* md_files = list(docs_path.rglob("*.md"))
ValidateExtraction(p) ==
    /\ pc[p] = "validate"
    /\ stages' = [stages EXCEPT ![p] = Append(@, "validate")]
    /\ \/ /\ NoFault
          /\ validate_extraction(scratch) = "ok"
          /\ Goto(p, "groom")
       \/ /\ NoFault
          /\ validate_extraction(scratch) # "ok"
          /\ TryRaise(p, validate_extraction(scratch), "validate")
       \/ /\ Fault
          /\ TryRaise(p, "KeyboardInterrupt", "validate")
    /\ UNCHANGED <<now, runs, fsVars, force, cleanup, count, lw, exit,
                   outcome, succAt, doc>>

\* A file as groom_markdown_files writes it back.
Groomed(f) == [f EXCEPT !.groomed = TRUE]

\* processed_count = groom_markdown_files(docs_path)
GroomMarkdownFiles(p) ==
    /\ pc[p] = "groom"
    /\ stages' = [stages EXCEPT ![p] = Append(@, "groom")]
    /\ \/ \* no markdown file under docs_dir
          /\ NoFault
          /\ scratch.files = {}
          /\ TryRaise(p, "GroomingError", "groom")
          /\ UNCHANGED <<scratch, count>>
       \/ \* every file is read, transformed and written back
          /\ NoFault
          /\ scratch.files # {}
          /\ scratch' = [scratch EXCEPT !.files = {Groomed(f) : f \in @}]
          /\ count' = [count EXCEPT ![p] = Cardinality(scratch.files)]
          /\ Goto(p, "index")
       \/ \* a read or a write raises after the files in done were rewritten:
          \* an OSError becomes GroomingError, any other exception (a
          \* UnicodeDecodeError of read_text) is wrapped by update_docs
          /\ Fault
          /\ scratch.files # {}
          /\ \E done \in SUBSET scratch.files :
                /\ done # scratch.files
                /\ scratch' = [scratch EXCEPT !.files =
                                  (@ \ done) \cup {Groomed(f) : f \in done}]
          /\ \E e \in {"GroomingError", "UnicodeDecodeError",
                       "KeyboardInterrupt"} :
                TryRaise(p, e, "groom")
          /\ UNCHANGED count
    /\ UNCHANGED <<now, runs, lock, lockTmp, archive, ci, skill, force,
                   cleanup, lw, exit, outcome, succAt, doc>>

\* file_tree = generate_file_tree(docs_path)
\* update_skill_index(skill_file, file_tree)
UpdateIndex(p) ==
    /\ pc[p] = "index"
    /\ stages' = [stages EXCEPT ![p] = Append(@, "index")]
    /\ \/ \* SKILL.md not found
          /\ NoFault
          /\ ~skill.exists
          /\ TryRaise(p, "GroomingError", "index")
          /\ UNCHANGED skill
       \/ /\ NoFault
          /\ skill.exists
          /\ skill' = [skill EXCEPT !.index = generate_file_tree(scratch.files)]
          /\ Goto(p, "publish")
       \/ \* the scan, the read or the write raises OSError
          /\ Fault
          /\ \E e \in {"GroomingError", "KeyboardInterrupt"} :
                TryRaise(p, e, "index")
          /\ UNCHANGED skill
    /\ UNCHANGED <<now, runs, lock, lockTmp, archive, scratch, ci, force,
                   cleanup, count, lw, exit, outcome, succAt, doc>>

\* -------------------------------------------------------- atomic_replace
\* A publisher that moves the new files into the target directory without
\* removing it first.
AtomicReplace_Merge(p) ==
    /\ pc[p] = "publish"
    /\ stages' = [stages EXCEPT ![p] = Append(@, "publish")]
    /\ NoFault
    /\ ci' = Dir(scratch.files \cup
                 {f \in ci.files : \A g \in scratch.files : g.name # f.name})
    /\ scratch' = [scratch EXCEPT !.hasDocs = FALSE, !.files = {}]
    /\ pc' = [pc EXCEPT ![p] = "cleanup_archive"]
    /\ snap' = [snap EXCEPT ![p].pub = TRUE, ![p].tree = Dir(scratch.files),
                            ![p].done = TRUE]
    /\ UNCHANGED <<now, runs, lock, lockTmp, archive, skill, force, cleanup,
                   exc, count, lw, exit, outcome, succAt, doc>>

\* atomic_replace(docs_path, ci_dir): if target.exists()
AtomicReplace(p) ==
    /\ pc[p] = "publish"
    /\ stages' = [stages EXCEPT ![p] = Append(@, "publish")]
    /\ \/ /\ NoFault
          /\ pc' = [pc EXCEPT ![p] = IF ci.exists THEN "pub_rm"
                                     ELSE "pub_rename"]
          /\ snap' = [snap EXCEPT ![p].pub = TRUE,
                                  ![p].tree = Dir(scratch.files)]
          /\ UNCHANGED exc
       \/ /\ Fault
          /\ TryRaise(p, "KeyboardInterrupt", "publish")
    /\ UNCHANGED <<now, runs, fsVars, force, cleanup, count, lw, exit,
                   outcome, succAt, doc>>

\* shutil.rmtree(target): the entries are unlinked one after the other and
\* the directory is removed last.
Rmtree(p) ==
    /\ pc[p] = "pub_rm"
    /\ \/ /\ NoFault
          /\ ci.exists /\ ci.files # {}
          /\ \E f \in ci.files : ci' = [ci EXCEPT !.files = @ \ {f}]
          /\ UNCHANGED <<pc, exc, snap>>
       \/ /\ NoFault
          /\ ci.exists /\ ci.files = {}
          /\ ci' = NoDir
          /\ Goto(p, "pub_rename")
       \/ \* the directory is not there any more
          /\ NoFault
          /\ ~ci.exists
          /\ TryRaise(p, "OSError", "publish")
          /\ UNCHANGED ci
       \/ \* an unlink or the rmdir raises OSError
          /\ Fault
          /\ \E e \in {"OSError", "KeyboardInterrupt"} :
                TryRaise(p, e, "publish")
          /\ UNCHANGED ci
    /\ UNCHANGED <<now, runs, lock, lockTmp, archive, scratch, skill, force,
                   cleanup, count, lw, exit, outcome, stages, succAt, doc>>

\* source.rename(target): rename(2) moves the directory when the target is
\* not there or is an empty directory.
RenameOk == scratch.hasDocs /\ (~ci.exists \/ ci.files = {})

\* The two directories after source.rename(target): <<source's parent
\* references/ci-new, target>>.
Moved(s, t) ==
    <<[s EXCEPT !.hasDocs = FALSE, !.files = {}], Dir(s.files)>>

Rename(p) ==
    /\ pc[p] = "pub_rename"
    /\ \/ /\ NoFault
          /\ RenameOk
          /\ scratch' = Moved(scratch, ci)[1]
          /\ ci' = Moved(scratch, ci)[2]
          /\ pc' = [pc EXCEPT ![p] = "cleanup_archive"]
          /\ snap' = [snap EXCEPT ![p].done = TRUE]
          /\ UNCHANGED exc
       \/ /\ NoFault
          /\ ~RenameOk
          /\ TryRaise(p, "OSError", "publish")
          /\ UNCHANGED <<ci, scratch>>
       \/ /\ Fault
          /\ \E e \in {"OSError", "KeyboardInterrupt"} :
                TryRaise(p, e, "publish")
          /\ UNCHANGED <<ci, scratch>>
    /\ UNCHANGED <<now, runs, lock, lockTmp, archive, skill, force, cleanup,
                   count, lw, exit, outcome, stages, succAt, doc>>

\* ------------------------------------------------- update_docs: finally
\* An exception raised in the finally clause replaces the one propagating
\* and leaves update_docs as it is (no except clause covers the finally).
FinallyRaise(p, e) ==
    /\ exc' = [exc EXCEPT ![p] = e]
    /\ pc' = [pc EXCEPT ![p] = "ret"]

\* if cleanup: if archive_path.exists(): archive_path.unlink()
CleanupArchive(p) ==
    /\ pc[p] = "cleanup_archive"
    /\ \/ /\ NoFault
          /\ ~cleanup[p]
          /\ pc' = [pc EXCEPT ![p] = "ret"]
          /\ UNCHANGED <<exc, archive>>
       \/ /\ NoFault
          /\ cleanup[p] /\ ~archive.exists
          /\ pc' = [pc EXCEPT ![p] = "cleanup_scratch"]
          /\ UNCHANGED <<exc, archive>>
       \/ /\ NoFault
          /\ cleanup[p] /\ archive.exists
          /\ archive' = NoArchive
          /\ pc' = [pc EXCEPT ![p] = "cleanup_scratch"]
          /\ UNCHANGED exc
       \/ /\ Fault
          /\ cleanup[p] /\ archive.exists
          /\ \E e \in {"OSError", "KeyboardInterrupt"} : FinallyRaise(p, e)
          /\ UNCHANGED archive
    /\ UNCHANGED <<now, runs, lock, lockTmp, scratch, ci, skill, force,
                   cleanup, count, lw, exit, outcome, stages, snap, succAt, doc>>

\* if cleanup: if ci_new_dir.exists(): shutil.rmtree(ci_new_dir)
CleanupScratch(p) ==
    /\ pc[p] = "cleanup_scratch"
    /\ \/ /\ NoFault
          /\ ~scratch.exists
          /\ pc' = [pc EXCEPT ![p] = "ret"]
          /\ UNCHANGED <<exc, scratch>>
       \/ /\ NoFault
          /\ scratch.exists
          /\ scratch' = NoScratch
          /\ pc' = [pc EXCEPT ![p] = "ret"]
          /\ UNCHANGED exc
       \/ /\ Fault
          /\ scratch.exists
          /\ \E e \in {"OSError", "KeyboardInterrupt"} : FinallyRaise(p, e)
          /\ \/ UNCHANGED scratch
             \/ scratch' = [scratch EXCEPT !.files = {}]
    /\ UNCHANGED <<now, runs, lock, lockTmp, archive, ci, skill, force,
                   cleanup, count, lw, exit, outcome, stages, snap, succAt, doc>>

\* ----------------------------------------------------- main: try / except
\* An update_lock_file(working_dir, status, files_processed) call: the
\* record it will write (last_run is read when the call starts), whether it
\* is the call of the try body ("try") or of an except clause ("except"),
\* and the exit status the except clause raises after it; the lock file as
\* the call found it, and whether the call has renamed its record into place.
LockCall(status, files, t, mode, code) ==
    [status |-> status, files |-> files, at |-> t, mode |-> mode,
     code |-> code, before |-> lock, saved |-> FALSE]

\* A main without the except KeyboardInterrupt clause.
Handler_NoInterruptClause(e) ==
    IF e \in UpdateErrors THEN "record_failure" ELSE "uncaught"

\* What main does with an exception e raised in its try body: its except
\* clauses catch UpdateError and KeyboardInterrupt.
Handler(e) ==
    IF e \in UpdateErrors \cup {"KeyboardInterrupt"}
    THEN "record_failure" ELSE "uncaught"

\* A main that records a success whatever update_docs did.
Return_AlwaysSuccess(p) ==
    /\ pc[p] = "ret"
    /\ stages' = [stages EXCEPT ![p] = Append(@, "lock")]
    /\ lw' = [lw EXCEPT ![p] = LockCall("success", count[p], now, "try", 0)]
    /\ pc' = [pc EXCEPT ![p] = "lock_open"]
    /\ UNCHANGED <<exit, outcome>>
    /\ UNCHANGED <<now, runs, faults, fsVars, force, cleanup, exc, count,
                   snap, succAt, doc>>

\* asyncio.run(update_docs(...)) returns or raises into main's try.
Return(p) ==
    /\ pc[p] = "ret"
    /\ \/ /\ exc[p] = "none"
          /\ stages' = [stages EXCEPT ![p] = Append(@, "lock")]
          /\ lw' = [lw EXCEPT ![p] =
                      LockCall("success", count[p], now, "try", 0)]
          /\ pc' = [pc EXCEPT ![p] = "lock_open"]
          /\ UNCHANGED <<exit, outcome>>
       \/ /\ exc[p] # "none"
          /\ Handler(exc[p]) = "record_failure"
          /\ stages' = [stages EXCEPT ![p] = Append(@, "record_failure")]
          /\ lw' = [lw EXCEPT ![p] =
                      LockCall("failure", 0, now, "except",
                               IF exc[p] = "KeyboardInterrupt" THEN 130 ELSE 1)]
          /\ pc' = [pc EXCEPT ![p] = "lock_open"]
          /\ UNCHANGED <<exit, outcome>>
       \/ /\ exc[p] # "none"
          /\ Handler(exc[p]) = "uncaught"
          /\ Exited(p, 1, "Failed")
          /\ UNCHANGED <<stages, lw>>
    /\ UNCHANGED <<now, runs, faults, fsVars, force, cleanup, exc, count,
                   snap, succAt, doc>>

\* ------------------------------------------------------ update_lock_file
\* lock_data of the call in progress, as json.dumps writes it.
LockData(c) == LockRecord(c.status, "ok", c.at, c.files)

\* A save that opens the lock file itself for writing.
OpenedForWrite_InPlace(lk, tmp) == <<LockBroken("partial"), tmp>>

\* temp_lock_file.write_text(...) opens the temporary file for writing,
\* which creates or empties it: <<lock file, temporary file>> afterwards.
OpenedForWrite(lk, tmp) == <<lk, LockBroken("partial")>>

\* temp_lock_file.rename(lock_file): <<lock file, temporary file>> afterwards.
Renamed(lk, tmp) == <<tmp, LockAbsent>>

\* update_lock_file raises e: UpdateError (from OSError) or an interruption.
\* Raised by the call of the try body, main's except clause for e calls
\* update_lock_file(status="failure"); raised by the call of an except
\* clause, nothing catches it.
LockRaise(p, e) ==
    /\ exc' = [exc EXCEPT ![p] = e]
    /\ \/ /\ lw[p].mode = "try"
          /\ snap' = [snap EXCEPT ![p].failedAt = "lock"]
          /\ stages' = [stages EXCEPT ![p] = Append(@, "record_failure")]
          /\ lw' = [lw EXCEPT ![p] =
                      LockCall("failure", 0, now, "except",
                               IF e = "KeyboardInterrupt" THEN 130 ELSE 1)]
          /\ pc' = [pc EXCEPT ![p] = "lock_open"]
          /\ UNCHANGED <<exit, outcome>>
       \/ /\ lw[p].mode = "except"
          /\ Exited(p, 1, IF e = "KeyboardInterrupt" THEN "Interrupted"
                          ELSE "Failed")
          /\ UNCHANGED <<snap, stages, lw>>

\* write_text: open(temp_lock_file, "w")
LockOpen(p) ==
    /\ pc[p] = "lock_open"
    /\ \/ /\ NoFault
          /\ lock' = OpenedForWrite(lock, lockTmp)[1]
          /\ lockTmp' = OpenedForWrite(lock, lockTmp)[2]
          /\ pc' = [pc EXCEPT ![p] = "lock_write"]
          /\ UNCHANGED <<exc, snap, stages, lw, exit, outcome>>
       \/ /\ Fault
          /\ \E e \in {"UpdateError", "KeyboardInterrupt"} : LockRaise(p, e)
          /\ UNCHANGED <<lock, lockTmp>>
    /\ UNCHANGED <<now, runs, archive, scratch, ci, skill, force, cleanup,
                   count, succAt, doc>>

\* write_text: write(json.dumps(lock_data, indent=2)) and close
LockWrite(p) ==
    /\ pc[p] = "lock_write"
    /\ \/ /\ NoFault
          /\ lockTmp' = LockData(lw[p])
          /\ pc' = [pc EXCEPT ![p] = "lock_rename"]
          /\ UNCHANGED <<exc, snap, stages, lw, exit, outcome>>
       \/ /\ Fault
          /\ \E e \in {"UpdateError", "KeyboardInterrupt"} : LockRaise(p, e)
          /\ UNCHANGED lockTmp
    /\ UNCHANGED <<now, runs, lock, archive, scratch, ci, skill, force,
                   cleanup, count, succAt, doc>>

\* temp_lock_file.rename(lock_file), then the return to main: the try body
\* ends (exit status 0), or the except clause raises typer.Exit(code).
LockRename(p) ==
    /\ pc[p] = "lock_rename"
    /\ \/ /\ NoFault
          /\ lockTmp.kind # "absent"
          /\ lock' = Renamed(lock, lockTmp)[1]
          /\ lockTmp' = Renamed(lock, lockTmp)[2]
          /\ succAt' = IF lockTmp.kind = "record" /\ lockTmp.status = "success"
                       THEN lockTmp.last_run ELSE succAt
          /\ lw' = [lw EXCEPT ![p].saved = TRUE]
          /\ snap' = [snap EXCEPT ![p].wrote = lockTmp.status]
          /\ IF lw[p].mode = "try"
             THEN Exited(p, 0, "Done")
             ELSE Exited(p, lw[p].code,
                         IF lw[p].code = 130 THEN "Interrupted" ELSE "Failed")
          /\ UNCHANGED <<exc, stages>>
       \/ \* the temporary file is not there
          /\ NoFault
          /\ lockTmp.kind = "absent"
          /\ LockRaise(p, "UpdateError")
          /\ UNCHANGED <<lock, lockTmp, succAt>>
       \/ /\ Fault
          /\ \E e \in {"UpdateError", "KeyboardInterrupt"} : LockRaise(p, e)
          /\ UNCHANGED <<lock, lockTmp, succAt>>
    /\ UNCHANGED <<now, runs, archive, scratch, ci, skill, force, cleanup,
                   count, doc>>

\* The process is killed (SIGKILL, power loss): no except clause, no
\* finally clause and no lock update runs.
Kill(p) ==
    /\ pc[p] \notin {"idle", "gate", "exited"}
    /\ Fault
    /\ Exited(p, 137, "Killed")
    /\ UNCHANGED <<now, runs, fsVars, force, cleanup, exc, count, lw, stages,
                   snap, succAt, doc>>

\* --------------------------------------------------------- specifications
\* One invocation on a working directory, any day after day 0.
Next ==
    \/ Tick
    \/ Start(1)
    \/ CheckCooldown(1)
    \/ GateInterrupted(1)
    \/ MkRefs(1)
    \/ DownloadArchive(1)
    \/ ExtractArchive(1)
    \/ ValidateExtraction(1)
    \/ GroomMarkdownFiles(1)
    \/ UpdateIndex(1)
    \/ AtomicReplace(1)
    \/ Rmtree(1)
    \/ Rename(1)
    \/ CleanupArchive(1)
    \/ CleanupScratch(1)
    \/ Return(1)
    \/ LockOpen(1)
    \/ LockWrite(1)
    \/ LockRename(1)
    \/ Kill(1)

Spec == Init /\ [][Next]_vars

\* update_lock_file alone: a call of main's try body or of one of its
\* except clauses, on any lock file, with what an earlier call that did not
\* end may have left in the temporary file.
InitLock ==
    /\ now \in 0..MaxTime
    /\ runs = 1
    /\ faults = 0
    /\ lock \in {LockAbsent, LockRecord("success", "ok", 0, 2),
                 LockRecord("failure", "ok", 0, 0)} \cup BrokenLocks
    /\ lockTmp \in {LockAbsent, LockBroken("partial"),
                    LockRecord("failure", "ok", 0, 0)}
    /\ archive = NoArchive
    /\ scratch = NoScratch
    /\ ci = OldTree
    /\ skill = Skill(TRUE, generate_file_tree(ci.files))
    /\ succAt = -1
    /\ doc = NoDoc
    /\ \E c \in {LockCall("success", 1, now, "try", 0),
                 LockCall("success", 2, now, "try", 0),
                 LockCall("failure", 0, now, "except", 1),
                 LockCall("failure", 0, now, "except", 130)} :
          /\ lw = [p \in Procs |-> IF p = 1 THEN c ELSE NoWrite]
          /\ exc = [p \in Procs |->
                      IF p # 1 \/ c.mode = "try" THEN "none"
                      ELSE IF c.code = 130 THEN "KeyboardInterrupt"
                      ELSE "UpdateError"]
    /\ pc = [p \in Procs |-> IF p = 1 THEN "lock_open" ELSE "idle"]
    /\ force \in [Procs -> {FALSE}]
    /\ cleanup \in [Procs -> {TRUE}]
    /\ count = [p \in Procs |-> lw[p].files]
    /\ exit = [p \in Procs |-> -1]
    /\ outcome = [p \in Procs |-> "none"]
    /\ stages = [p \in Procs |-> << >>]
    /\ snap = [p \in Procs |-> NoSnap]

NextLock ==
    \/ LockOpen(1)
    \/ LockWrite(1)
    \/ LockRename(1)
    \/ Kill(1)

SpecLock == InitLock /\ [][NextLock]_vars

\* Nothing runs and nothing is on disk: only a text is transformed.
InitIdle ==
    /\ now = 0
    /\ runs = 0
    /\ faults = 0
    /\ lock = LockAbsent
    /\ lockTmp = LockAbsent
    /\ archive = NoArchive
    /\ scratch = NoScratch
    /\ ci = NoDir
    /\ skill = Skill(FALSE, {})
    /\ succAt = -1
    /\ InitProcs

\* The link targets transform_links may meet: a URL, an anchor, or a path
\* of up to MaxDepth components (a link with an empty target is no link for
\* LINK_PATTERN).
LinkTargets ==
    {Target(sc, cs) :
        sc \in Schemes,
        cs \in UNION {[1..n -> PathNames] : n \in 0..MaxDepth}}
    \ {Target("", << >>)}

\* content = transform_links(content, current_file=md_file, docs_root=docs_dir)
\* on a content that is one link: any target, in a file at the root of the
\* documentation or one directory below.
InitLinks ==
    /\ InitIdle
    /\ \E d \in FileDirs, t \in LinkTargets :
          doc = [kind |-> "link", dir |-> d, target |-> t, out |-> t,
                 done |-> FALSE]

\* LINK_PATTERN.sub(replace_link, content)
TransformLinks ==
    /\ doc.kind = "link"
    /\ ~doc.done
    /\ doc' = [doc EXCEPT !.out = replace_link(doc.target, doc.dir),
                          !.done = TRUE]
    /\ UNCHANGED <<now, runs, faults, fsVars, pc, force, cleanup, exc, count,
                   lw, exit, outcome, stages, snap, succAt>>

NextLinks == TransformLinks

SpecLinks == InitLinks /\ [][NextLinks]_vars

\* groom_markdown_files on a file it has groomed before: transform_links on
\* a content that is one link, then transform_links on what the first pass
\* wrote, for the same file and the same document root.
InitRelink ==
    /\ InitIdle
    /\ \E d \in FileDirs, t \in LinkTargets :
          doc = [kind |-> "relink", dir |-> d, target |-> t, once |-> t,
                 twice |-> t, passes |-> 0]

TransformLinksAgain ==
    /\ doc.kind = "relink"
    /\ doc.passes < 2
    /\ doc' = IF doc.passes = 0
              THEN [doc EXCEPT !.once = replace_link(doc.target, doc.dir),
                               !.passes = 1]
              ELSE [doc EXCEPT !.twice = replace_link_again(doc.once, doc.dir),
                               !.passes = 2]
    /\ UNCHANGED <<now, runs, faults, fsVars, pc, force, cleanup, exc, count,
                   lw, exit, outcome, stages, snap, succAt>>

NextRelink == TransformLinksAgain

SpecRelink == InitRelink /\ [][NextRelink]_vars

\* content = remove_hugo_shortcodes(content) on any content of up to MaxLen
\* tokens.
InitCodes ==
    /\ InitIdle
    /\ \E c \in Contents :
          doc = [kind |-> "codes", content |-> c, out |-> c, done |-> FALSE]

RemoveShortcodes ==
    /\ doc.kind = "codes"
    /\ ~doc.done
    /\ doc' = [doc EXCEPT !.out = remove_hugo_shortcodes(doc.content),
                          !.done = TRUE]
    /\ UNCHANGED <<now, runs, faults, fsVars, pc, force, cleanup, exc, count,
                   lw, exit, outcome, stages, snap, succAt>>

NextCodes == RemoveShortcodes

SpecCodes == InitCodes /\ [][NextCodes]_vars

\* The document trees generate_file_tree may meet: up to MaxFiles markdown
\* files at the root and in directories below it, with and without a
\* metadata block (rglob matches regular files here: the tree has passed
\* groom_markdown_files, which reads every match).
IndexDirs == {<< >>, <<"a">>, <<"a", "b">>, <<"b">>}

IndexPaths == {d \o <<n>> : d \in IndexDirs, n \in {"a.md", "b.md"}}

Metadata ==
    {MdFile(<< >>, "none", "none", "none"),
     MdFile(<< >>, "broken", "none", "none"),
     MdFile(<< >>, "yaml", "T", "D"),
     MdFile(<< >>, "yaml", "T", "none"),
     MdFile(<< >>, "yaml", "none", "D"),
     MdFile(<< >>, "yaml", "T", "")}

IndexTrees ==
    UNION {{{[m[p] EXCEPT !.path = p] : p \in P} : m \in [P -> Metadata]} :
             P \in {Q \in SUBSET IndexPaths : Cardinality(Q) <= MaxFiles}}

\* docs_dir.rglob("*.md"): the paths of the files, in any order.
Listings(tree) ==
    {s \in [1..Cardinality(tree) -> {f.path : f \in tree}] :
        \A i, j \in 1..Cardinality(tree) : i # j => s[i] # s[j]}

InitIndex ==
    /\ InitIdle
    /\ \E t \in IndexTrees :
          doc = [kind |-> "index", tree |-> t, built |-> 0,
                 listed |-> << >>, out |-> << >>,
                 relisted |-> << >>, again |-> << >>]

\* file_tree = generate_file_tree(docs_path), a first and a second time on
\* the same tree.
BuildIndex ==
    /\ doc.kind = "index"
    /\ doc.built < 2
    /\ \E s \in Listings(doc.tree) :
          doc' = IF doc.built = 0
                 THEN [doc EXCEPT !.built = 1, !.listed = s,
                                  !.out = tree_lines(doc.tree, s)]
                 ELSE [doc EXCEPT !.built = 2, !.relisted = s,
                                  !.again = tree_lines(doc.tree, s)]
    /\ UNCHANGED <<now, runs, faults, fsVars, pc, force, cleanup, exc, count,
                   lw, exit, outcome, stages, snap, succAt>>

NextIndex == BuildIndex

SpecIndex == InitIndex /\ [][NextIndex]_vars

\* update_skill_index(skill_file, file_tree) on any SKILL.md of up to
\* MaxLines lines and any index text.
InitSkill ==
    /\ InitIdle
    /\ \E n \in 0..MaxLines :
          \E c \in [1..n -> {Line(k) : k \in LineKinds}],
             e \in BOOLEAN, t \in FileTrees :
             /\ n = 0 => e
             /\ doc = [kind |-> "skill", content |-> c, eol |-> e,
                       file_tree |-> t, done |-> FALSE,
                       out |-> [raised |-> "none", content |-> c, eol |-> e]]

UpdateSkillIndex ==
    /\ doc.kind = "skill"
    /\ ~doc.done
    /\ doc' = [doc EXCEPT
                 !.out = update_skill_index(doc.content, doc.eol, doc.file_tree),
                 !.done = TRUE]
    /\ UNCHANGED <<now, runs, faults, fsVars, pc, force, cleanup, exc, count,
                   lw, exit, outcome, stages, snap, succAt>>

NextSkill == UpdateSkillIndex

SpecSkill == InitSkill /\ [][NextSkill]_vars

\* Two invocations on one working directory on the same day, started in
\* any order and running at the same time, step by step, on a first run or
\* after a success of day 0; the environment does not fail (no failure is
\* left to happen), and the remote end serves one of two well-formed
\* archives.
TwoArchives ==
    {Shape({"top"}, TRUE, TRUE, Names), Shape({"top"}, TRUE, TRUE, {"a.md"})}

InitTwo ==
    /\ now = 0
    /\ runs = 0
    /\ faults = MaxFaults
    /\ lockTmp = LockAbsent
    /\ archive = NoArchive
    /\ scratch = NoScratch
    /\ \/ /\ lock = LockAbsent
          /\ ci = NoDir
          /\ skill = Skill(TRUE, {})
       \/ /\ lock = LockRecord("success", "ok", 0, 2)
          /\ ci = OldTree
          /\ skill = Skill(TRUE, generate_file_tree(ci.files))
    /\ succAt = IF lock.status = "success" THEN lock.last_run ELSE -1
    /\ doc = NoDoc
    /\ InitProcs

NextTwo ==
    \E p \in Procs :
       \/ Start(p)
       \/ CheckCooldown(p)
       \/ MkRefs(p)
       \/ DownloadFrom(p, TwoArchives)
       \/ ExtractArchive(p)
       \/ ValidateExtraction(p)
       \/ GroomMarkdownFiles(p)
       \/ UpdateIndex(p)
       \/ AtomicReplace(p)
       \/ Rmtree(p)
       \/ Rename(p)
       \/ CleanupArchive(p)
       \/ CleanupScratch(p)
       \/ Return(p)
       \/ LockOpen(p)
       \/ LockWrite(p)
       \/ LockRename(p)

SpecTwo == InitTwo /\ [][NextTwo]_vars

\* The loop body of groom_markdown_files on one file at the root of the
\* documentation, of up to MaxLen tokens: file is the text on disk, content
\* the variable of the loop body, step the number of statements done.
InitGroom ==
    /\ InitIdle
    /\ \E c \in UNION {[1..n -> GroomTokens] : n \in 0..MaxLen} :
          doc = [kind |-> "groom", orig |-> c, file |-> c, content |-> << >>,
                 step |-> 0]

GroomFile ==
    /\ doc.kind = "groom"
    /\ doc.step < Len(GroomSteps)
    /\ LET statement == GroomSteps[doc.step + 1] IN
          doc' = [doc EXCEPT
                    !.step = @ + 1,
                    !.content =
                       IF statement = "read_text" THEN doc.file
                       ELSE IF statement = "transform_links"
                       THEN transform_links(@)
                       ELSE IF statement = "remove_hugo_shortcodes"
                       THEN remove_hugo_shortcodes(@)
                       ELSE @,
                    !.file = IF statement = "write_text" THEN doc.content
                             ELSE @]
    /\ UNCHANGED <<now, runs, faults, fsVars, pc, force, cleanup, exc, count,
                   lw, exit, outcome, stages, snap, succAt>>

NextGroom == GroomFile

SpecGroom == InitGroom /\ [][NextGroom]_vars

\* One invocation after the other on one working directory, days apart,
\* each removing its temporary files; the remote end serves a well-formed
\* archive or an empty one.
FewArchives == {Shape({"top"}, TRUE, TRUE, Names), Shape({}, FALSE, FALSE, {})}

InitRuns ==
    /\ InitDisk({LockRecord("success", "ok", 0, 2),
                 LockRecord("failure", "ok", 0, 0)})
    /\ InitProcs

NextRuns ==
    \/ Tick
    \/ StartWith(1, {TRUE})
    \/ Reap(1)
    \/ CheckCooldown(1)
    \/ MkRefs(1)
    \/ DownloadFrom(1, FewArchives)
    \/ ExtractArchive(1)
    \/ ValidateExtraction(1)
    \/ GroomMarkdownFiles(1)
    \/ UpdateIndex(1)
    \/ AtomicReplace(1)
    \/ Rmtree(1)
    \/ Rename(1)
    \/ CleanupArchive(1)
    \/ CleanupScratch(1)
    \/ Return(1)
    \/ LockOpen(1)
    \/ LockWrite(1)
    \/ LockRename(1)

SpecRuns == InitRuns /\ [][NextRuns]_vars

\* One invocation after the other as above, with or without --no-cleanup,
\* the remote end serving any well-formed archive: what an invocation keeps
\* in references/ci-new is there when the next one starts.
NextRetain ==
    \/ Tick
    \/ Start(1)
    \/ Reap(1)
    \/ CheckCooldown(1)
    \/ MkRefs(1)
    \/ DownloadFrom(1, GoodArchives)
    \/ ExtractArchive(1)
    \/ ValidateExtraction(1)
    \/ GroomMarkdownFiles(1)
    \/ UpdateIndex(1)
    \/ AtomicReplace(1)
    \/ Rmtree(1)
    \/ Rename(1)
    \/ CleanupArchive(1)
    \/ CleanupScratch(1)
    \/ Return(1)
    \/ LockOpen(1)
    \/ LockWrite(1)
    \/ LockRename(1)

SpecRetain == InitRuns /\ [][NextRetain]_vars

\* ------------------------------------------------------------- properties
\* C1: when an invocation has ended in failure (an update error, an
\* unexpected error or a user interruption), the published directory
\* references/ci holds exactly what it held when the invocation started.
C1_FailedRunLeavesPublishedTree ==
    \A p \in Procs :
        (pc[p] = "exited" /\ outcome[p] \in {"Failed", "Interrupted"})
        => ci = snap[p].ci

\* C2: from the call of atomic_replace on, in every state (between any two
\* of its file system steps, and after a failure or a kill), the published
\* path is either the complete previous tree or the complete new tree,
\* never absent and never a mixture.
C2_PublishedIsOldOrNew ==
    \A p \in Procs : snap[p].pub => ci \in {snap[p].ci, snap[p].tree}

\* C3: an invocation that ended in Done has written a success record whose
\* files_processed is the number of markdown files it groomed, and an
\* invocation that ended in Failed has written a failure record; none ends
\* with the lock file as it found it.
C3_TerminalStateRewritesLock ==
    \A p \in Procs :
        pc[p] = "exited" =>
            /\ outcome[p] = "Done" =>
                  /\ snap[p].wrote = "success"
                  /\ lock = LockRecord("success", "ok", lw[p].at, count[p])
            /\ outcome[p] = "Failed" =>
                  /\ snap[p].wrote = "failure"
                  /\ lock.kind = "record"
                  /\ lock.status = "failure"

\* C4: without force and with a lock file that is absent or well formed,
\* the gate answers true or false, and false exactly when the record says
\* success and less than 3 days have passed since its last_run (so: true at
\* exactly 3 days, true without a lock file, true after a failure).
C4_GateBlocksIffRecentSuccess ==
    \A p \in Procs :
        ( /\ snap[p].gateRes # "none"
          /\ ~force[p]
          /\ snap[p].gateLock.kind = "absent" \/ WellFormed(snap[p].gateLock) )
        => /\ snap[p].gateRes \in {"true", "false"}
           /\ snap[p].gateRes = "false" <=>
                 /\ snap[p].gateLock.kind = "record"
                 /\ snap[p].gateLock.status = "success"
                 /\ snap[p].gateNow - snap[p].gateLock.last_run < CooldownDays

\* The gate answered true, without force, exactly 3 days after a success.
C4_Witness ==
    \E p \in Procs :
        /\ snap[p].gateRes = "true"
        /\ ~force[p]
        /\ WellFormed(snap[p].gateLock)
        /\ snap[p].gateLock.status = "success"
        /\ snap[p].gateNow - snap[p].gateLock.last_run = CooldownDays

\* C5 as stated: whenever an invocation started without force ends in
\* success, at least 3 days have passed since the most recent earlier
\* success was recorded.
C5_SuccessesAreCooldownApart ==
    \A p \in Procs :
        (pc[p] = "exited" /\ outcome[p] = "Done" /\ ~force[p]
            /\ snap[p].succ >= 0)
        => now - snap[p].succ >= CooldownDays

\* C5 amended: whenever an invocation started without force ends in success
\* and the lock file it found still held the record of the most recent
\* earlier success (no later run has recorded a failure over it), at least
\* 3 days have passed since that success was recorded.
C5_SuccessesAreCooldownApartWhileRecorded ==
    \A p \in Procs :
        (pc[p] = "exited" /\ outcome[p] = "Done" /\ ~force[p]
            /\ snap[p].succ >= 0
            /\ snap[p].lock = LockRecord("success", "ok", snap[p].succ,
                                         snap[p].lock.files_processed))
        => now - snap[p].succ >= CooldownDays

\* A second success without force, on a lock file that held the first.
C5_Witness ==
    \E p \in Procs :
        /\ pc[p] = "exited" /\ outcome[p] = "Done" /\ ~force[p]
        /\ snap[p].succ >= 0
        /\ snap[p].lock.kind = "record"
        /\ snap[p].lock.status = "success"
        /\ snap[p].lock.last_run = snap[p].succ
        /\ snap[p].wrote = "success"

\* C6: after an invocation that ended in Failed or was interrupted, the
\* gate of the next invocation without force answers true, however little
\* time has passed.
C6_FailureNeverBlocksRetry ==
    \A p \in Procs :
        (snap[p].prev \in {"Failed", "Interrupted"}
            /\ snap[p].gateRes # "none" /\ ~force[p])
        => snap[p].gateRes = "true"

\* C7: with force the gate answers true whatever the lock file holds
\* (nothing, a success within the cooldown, a failure, broken data), and
\* raises nothing.
C7_ForceAlwaysPasses ==
    \A p \in Procs :
        (snap[p].gateRes # "none" /\ force[p]) => snap[p].gateRes = "true"

\* The gate answered true with force on a lock file that is not a record.
C7_Witness ==
    \E p \in Procs :
        /\ force[p]
        /\ snap[p].gateRes = "true"
        /\ snap[p].gateLock.kind = "garbage"

\* C8: the gate without force raises exactly when the lock file is
\* malformed (unparseable, or a status or timestamp missing or invalid):
\* it never answers true on a malformed lock file, and never raises on a
\* well-formed or absent one.
C8_MalformedLockIsFatal ==
    \A p \in Procs :
        (snap[p].gateRes # "none" /\ ~force[p])
        => (snap[p].gateRes = "UpdateError" <=> Malformed(snap[p].gateLock))

\* C9: during and after an update_lock_file call the lock file is never
\* partially written; until the call has renamed its record into place the
\* lock file is what the call found (the previous record, or nothing), also
\* when the call failed, was interrupted or the process was killed; after
\* the rename it is the complete new record.
C9_LockSaveIsCrashAtomic ==
    \A p \in Procs :
        lw[p].mode # "none" =>
            /\ lock.kind # "partial"
            /\ lock = IF lw[p].saved THEN LockData(lw[p]) ELSE lw[p].before

\* A save that ended in the middle of its write: the temporary file is
\* partial, the process is gone, and there was a previous record.
C9_Witness ==
    \E p \in Procs :
        /\ pc[p] = "exited"
        /\ outcome[p] \in {"Killed", "Failed", "Interrupted"}
        /\ ~lw[p].saved
        /\ lockTmp.kind = "partial"
        /\ lw[p].before.kind = "record"

\* C10: the stages of an invocation are a prefix of gate, fetch, extract,
\* validate, groom, index, publish, lock update (fixed order, none skipped,
\* none twice); an invocation that ended in Done ran them all; once a stage
\* has failed it stays the last stage that ran.  (The lock update of an
\* except clause of main, which records the failure, is not a stage.)
C10_StagesInFixedOrder ==
    \A p \in Procs :
        LET work == SelectSeq(stages[p], LAMBDA st : st # "record_failure") IN
            /\ Len(work) <= Len(StageOrder)
            /\ \A i \in 1..Len(work) : work[i] = StageOrder[i]
            /\ outcome[p] = "Done" => work = StageOrder
            /\ snap[p].failedAt # "none" =>
                  /\ work # << >>
                  /\ work[Len(work)] = snap[p].failedAt

\* An invocation that ran every stage and ended in Done.
C10_Witness ==
    \E p \in Procs :
        /\ pc[p] = "exited"
        /\ outcome[p] = "Done"
        /\ stages[p] = StageOrder

\* C11: when an invocation that passed the gate has ended (Done, Failed or
\* interrupted), the archive and the scratch directory are gone if cleanup
\* was not disabled; with --no-cleanup the archive the fetch stage wrote and
\* the directory the extract stage filled are still there.
C11_TemporariesRemovedUnlessRetained ==
    \A p \in Procs :
        ( /\ pc[p] = "exited"
          /\ outcome[p] \in {"Done", "Failed", "Interrupted"}
          /\ snap[p].gateRes = "true" )
        => IF cleanup[p]
           THEN ~archive.exists /\ ~scratch.exists
           ELSE /\ (\E i \in DOMAIN stages[p] : stages[p][i] = "extract")
                      => archive.exists
                /\ (\E i \in DOMAIN stages[p] : stages[p][i] = "validate")
                      => scratch.exists

\* C12: when an invocation that passed the gate has ended after a user
\* interruption (the last exception raised in it is KeyboardInterrupt and
\* the process was not killed), the lock file holds a failure record with
\* files_processed = 0 written by this invocation, and the exit status is
\* 130.
C12_InterruptRecordsFailure ==
    \A p \in Procs :
        ( /\ pc[p] = "exited"
          /\ outcome[p] # "Killed"
          /\ snap[p].gateRes = "true"
          /\ exc[p] = "KeyboardInterrupt" )
        => /\ snap[p].wrote = "failure"
           /\ lock = LockRecord("failure", "ok", lw[p].at, 0)
           /\ exit[p] = 130

\* C13: the step of the cooldown gate changes none of the files (lock file
\* and its temporary file, archive, scratch directory, published tree,
\* SKILL.md), nor does the start of the invocation before it; and an
\* invocation the cooldown blocked has run no stage but the gate and ends
\* with the lock file and the published tree it found.
C13_GateHasNoSideEffects ==
    [][\A p \in Procs :
          /\ pc[p] = "gate" => UNCHANGED fsVars
          /\ (pc[p] = "idle" /\ pc'[p] = "gate") => UNCHANGED fsVars
          /\ (pc'[p] = "exited" /\ outcome'[p] = "Noop") =>
                /\ stages'[p] = <<"gate">>
                /\ lock' = snap'[p].lock
                /\ ci' = snap'[p].ci]_vars

\* An invocation the cooldown blocked, with the success record still there.
C13_Witness ==
    \E p \in Procs :
        /\ pc[p] = "exited"
        /\ outcome[p] = "Noop"
        /\ snap[p].gateRes = "false"
        /\ lock = snap[p].lock
        /\ lock.status = "success"

\* C14: once atomic_replace has returned, the published directory holds
\* exactly the files of the document root it was given: every file of the
\* new tree is there, and no file of the previous generation whose name is
\* not in the new tree remains.
C14_PublishedIsExactlyNewTree ==
    \A p \in Procs :
        snap[p].done =>
            /\ ci.exists
            /\ ci.files = snap[p].tree.files
            /\ \A f \in snap[p].ci.files :
                  (\A g \in snap[p].tree.files : g.name # f.name)
                      => f \notin ci.files

\* A finished run whose new tree lacks a file the previous generation had.
C14_Witness ==
    \E p \in Procs :
        /\ pc[p] = "exited"
        /\ outcome[p] = "Done"
        /\ snap[p].done
        /\ snap[p].tree.files # {}
        /\ \E f \in snap[p].ci.files :
              \A g \in snap[p].tree.files : g.name # f.name

\* C15: whatever leaves update_docs as an error, from the mkdir before its
\* try, from a stage or from the cleanup of its finally clause, is
\* UpdateError or one of its four subclasses; the only other thing that
\* may leave it is the user's interruption.
C15_OnlyUpdateErrorEscapes ==
    \A p \in Procs :
        exc[p] \in UpdateErrors \cup {"none", "KeyboardInterrupt"}

C17_GroomingAllOrNothing ==
    \A p \in Procs :
        ( /\ snap[p].failedAt = "groom"
          /\ pc[p] = "cleanup_archive"
          /\ exc[p] # "KeyboardInterrupt" )
        => /\ exc[p] = "GroomingError"
           /\ ~snap[p].pub
           /\ ci = snap[p].ci
           /\ \A i \in DOMAIN stages[p] :
                 stages[p][i] \notin {"index", "publish"}

\* C18: validate_extraction returns (the run goes on to grooming) only if
\* the scratch directory has exactly one top-level entry, that entry is a
\* directory, doc/ci is a directory inside it and holds at least one
\* markdown file; and when it raises, the error is ValidationError and one
\* of these conditions fails.
C18_ValidatorFailsClosed ==
    \A p \in Procs :
        LET wellShaped ==
                /\ Cardinality(scratch.tops) = 1
                /\ scratch.topIsDir
                /\ scratch.hasDocs
                /\ scratch.files # {}
        IN  /\ pc[p] = "groom" => wellShaped
            /\ ( /\ snap[p].failedAt = "validate"
                 /\ pc[p] = "cleanup_archive"
                 /\ exc[p] # "KeyboardInterrupt" )
               => (~wellShaped /\ exc[p] = "ValidationError")

\* The validator has rejected an extraction with two top-level entries that
\* holds top/doc/ci and markdown files.
C18_Witness ==
    \E p \in Procs :
        /\ snap[p].failedAt = "validate"
        /\ exc[p] = "ValidationError"
        /\ Cardinality(scratch.tops) = 2
        /\ scratch.hasDocs
        /\ scratch.files # {}

\* C19: transform_links leaves a link unchanged when its target is an
\* absolute URL, an anchor or a mailto link; any other target is resolved
\* from the directory of the file that holds the link and becomes "./" and
\* the path from the document root when it lies inside the root, the raw
\* URL with the path from doc/ when it lies outside the root and inside
\* doc/, and stays unchanged when it lies outside doc/.
C19_LinkRewriting ==
    (doc.kind = "link" /\ doc.done) =>
        LET t == doc.target
            resolved == Resolve(IF t.scheme = "/" THEN << >> ELSE doc.dir,
                                t.comps)
        IN  IF t.scheme \in {"http://", "https://", "ftp://", "#", "mailto:"}
            THEN doc.out = t
            ELSE IF IsRelativeTo(resolved, DocsRoot)
            THEN doc.out = Target("./", RelativeTo(resolved, DocsRoot))
            ELSE IF IsRelativeTo(resolved, DocDir)
            THEN /\ doc.out.scheme =
                       "https://gitlab.com/gitlab-org/gitlab/-/raw/master/doc/"
                 /\ doc.out.comps = RelativeTo(resolved, DocDir)
                 /\ doc.out.query = "?ref_type=heads"
            ELSE doc.out = t

C21_IndexBuilderIsPureAndIdempotent ==
    [][doc.kind = "index" =>
          /\ doc'.tree = doc.tree
          /\ doc'.built = 2 => doc'.again = doc'.out]_vars

\* Two builds on a tree of two files in two directories, the file system
\* listing the files in one order and then in the other.
C21_Witness ==
    /\ doc.kind = "index"
    /\ doc.built = 2
    /\ doc.listed = <<<<"b", "a.md">>, <<"a", "b", "b.md">>>>
    /\ doc.relisted = <<<<"a", "b", "b.md">>, <<"b", "a.md">>>>
    /\ Len(doc.out) > 3

\* C22: the index has one link line for every markdown file of the tree and
\* no other; the files come directory by directory, the directories in the
\* order of their paths and the files of a directory in the order of their
\* names, each file below the line of its directory; the title is the title
\* of the file's metadata block and the next line its description when the
\* block has them, and a file without a metadata block is listed under its
\* file name with no description line.
C22_IndexListsEveryFileInOrder ==
    (doc.kind = "index" /\ doc.built > 0 /\ doc.tree # {}) =>
        LET out == doc.out
            Links == {i \in 1..Len(out) : out[i].kind = "file"}
            Name(p) == p[Len(p)]
            Folder(p) == SubSeq(p, 1, Len(p) - 1)
            Entry(i) == CHOOSE d \in 1..(i - 1) :
                           /\ out[d].kind = "directory"
                           /\ \A k \in (d + 1)..(i - 1) :
                                 out[k].kind # "directory"
            Described(i) == i < Len(out) /\ out[i + 1].kind = "description"
        IN  /\ \A f \in {g.path : g \in doc.tree} :
                  Cardinality({i \in Links : out[i].path = f}) = 1
            /\ Cardinality(Links) = Cardinality(doc.tree)
            /\ \A i, j \in Links :
                  i < j =>
                     IF Folder(out[i].path) = Folder(out[j].path)
                     THEN Rank(Name(out[i].path)) < Rank(Name(out[j].path))
                     ELSE PathLess(Folder(out[i].path), Folder(out[j].path))
            /\ \A i \in Links :
                  /\ \E d \in 1..(i - 1) : out[d].kind = "directory"
                  /\ out[Entry(i)].path = Folder(out[i].path)
                  /\ out[i].indent = out[Entry(i)].indent + 1
            /\ \A i \in Links :
                  LET f == CHOOSE g \in doc.tree : g.path = out[i].path
                  IN  IF f.block = "yaml"
                      THEN /\ out[i].text = IF f.title = "none"
                                            THEN Name(f.path) ELSE f.title
                           /\ Described(i) <=> f.description \notin {"none", ""}
                           /\ Described(i) => out[i + 1].text = f.description
                      ELSE /\ out[i].text = Name(f.path)
                           /\ ~Described(i)

\* A file without a metadata block at the root and a file with title and
\* description two directories below it, listed in the other order.
C22_Witness ==
    /\ doc.kind = "index"
    /\ doc.built = 1
    /\ doc.tree = {MdFile(<<"b.md">>, "none", "none", "none"),
                   MdFile(<<"a", "b", "a.md">>, "yaml", "T", "D")}
    /\ doc.listed = <<<<"a", "b", "a.md">>, <<"b.md">>>>
    /\ Len(doc.out) = 7
    /\ doc.out[3].text = "b.md"
    /\ doc.out[5].text = "T"
    /\ doc.out[6].text = "D"

\* C23: update_skill_index writes SKILL.md back with every line outside the
\* Documentation Index section as it was (empty lines aside), the section
\* being the heading and what follows it up to the next heading of level 1
\* or 2; a section that was there keeps its place and a section that was
\* not there is the last one; and the body of the section is the given
\* index text.
C23_OnlyIndexSectionChanges ==
    (doc.kind = "skill" /\ doc.done) =>
        LET c == doc.content
            o == doc.out.content
            InIndex(s, k) ==
                \E i \in 1..k :
                   /\ s[i].kind = "index"
                   /\ \A m \in (i + 1)..k :
                         s[m].kind \notin {"index", "h2", "h1"}
            Others(s) ==
                {k \in 1..Len(s) : ~InIndex(s, k) /\ s[k].kind # "blank"}
            Rest(s) ==
                [n \in 1..Cardinality(Others(s)) |->
                   s[CHOOSE k \in Others(s) :
                        Cardinality({q \in Others(s) : q <= k}) = n]]
            Indexes(s) == {i \in 1..Len(s) : s[i].kind = "index"}
        IN  /\ doc.out.raised = "none"
            /\ Rest(o) = Rest(c)
            /\ Indexes(o) # {}
            /\ \A i \in Indexes(o) :
                  /\ \E k \in (i + 1)..Len(o) :
                        o[k] = TreeLine(doc.file_tree) /\ InIndex(o, k)
                  /\ \A k \in (i + 1)..Len(o) :
                        (InIndex(o, k) /\ \A m \in (i + 1)..k :
                                             o[m].kind # "index")
                        => o[k] \in {TreeLine(doc.file_tree), Line("blank")}
            /\ IF Indexes(c) # {}
               THEN Cardinality(Indexes(o)) = Cardinality(Indexes(c))
               ELSE \A k \in 1..Len(o) :
                       (\E i \in Indexes(o) : i <= k) => InIndex(o, k)

\* C24: the gate of an invocation looks at the lock file, the clock and
\* --force only: whenever check_cooldown permits the run, the invocation
\* passes its gate, whatever another invocation is doing, and the gate
\* leaves no trace that another gate could see.
C24_GateDoesNotExclude ==
    [][\A p \in Procs :
          (pc[p] = "gate" /\ pc'[p] # "gate"
           /\ check_cooldown(force[p], lock, now) = "true")
          => (pc'[p] = "mkrefs" /\ lock' = lock /\ lockTmp' = lockTmp)]_vars

\* Both invocations have passed the gate and called atomic_replace on
\* references/ci, and both are now writing a lock record.
C24_Witness ==
    /\ pc[1] = "lock_write"
    /\ pc[2] = "lock_write"
    /\ snap[1].gateRes = "true"
    /\ snap[2].gateRes = "true"
    /\ snap[1].pub
    /\ snap[2].pub

\* C25: in every file groom_markdown_files rewrites the links of the text
\* it read, removes the shortcodes from the result, and writes the file
\* only then: until the write the file holds what it held, and the write
\* puts there the text with its links rewritten first and its shortcodes
\* removed second.
C25_LinksThenShortcodesThenWrite ==
    doc.kind = "groom" =>
        /\ doc.step < 4 => doc.file = doc.orig
        /\ doc.step = 1 => doc.content = doc.orig
        /\ doc.step = 2 => doc.content = transform_links(doc.orig)
        /\ doc.step >= 3 =>
              doc.content = remove_hugo_shortcodes(transform_links(doc.orig))
        /\ doc.step = 4 => doc.file = doc.content

\* A link whose target is a shortcode block: rewritten first, the link
\* keeps "./" as its target when the block is removed (removed first, the
\* block would leave no link to rewrite).
C25_Witness ==
    /\ doc.kind = "groom"
    /\ doc.step = 4
    /\ doc.orig = <<LinkOpen, Tag("open", "<", "details"),
                    Tag("close", "<", "details"), LinkClose>>
    /\ doc.file = <<LinkOpen, Text("./"), LinkClose>>

\* C26: when an invocation has ended, SKILL.md lists files of that
\* invocation if and only if its atomic_replace returned, and the index of
\* SKILL.md is the index of the tree that references/ci holds.
C26_IndexAndTreeOfOneGeneration ==
    \A p \in Procs :
        pc[p] = "exited" =>
            /\ (\E e \in skill.index : e.gen = p) <=> snap[p].done
            /\ skill.exists => skill.index = generate_file_tree(ci.files)

\* C27: over invocations that run one after the other, a success record in
\* the lock file counts at least one file and a failure record counts none,
\* and an invocation that has put a success record there had its
\* atomic_replace return before.
C27_LockRecordMatchesTheRun ==
    /\ (lock.kind = "record" /\ lock.status = "success")
          => lock.files_processed >= 1
    /\ (lock.kind = "record" /\ lock.status = "failure")
          => lock.files_processed = 0
    /\ \A p \in Procs :
          snap[p].wrote = "success" =>
             /\ snap[p].done
             /\ lw[p].files >= 1
             /\ lock = LockRecord("success", "ok", lw[p].at, lw[p].files)

\* A second invocation, after one that failed, has published two files
\* and recorded its success.
C27_Witness ==
    /\ pc[1] = "exited"
    /\ snap[1].prev = "Failed"
    /\ snap[1].wrote = "success"
    /\ snap[1].done
    /\ lock.status = "success"
    /\ lock.files_processed = 2

\* C28: whatever an invocation validates, grooms, indexes or publishes, it
\* has extracted from the archive it fetched itself: from validation to the
\* end of the publish step references/ci-new holds no file of an earlier
\* invocation, and neither does the tree given to atomic_replace.
C28_OnlyOwnFilesAreProcessed ==
    \A p \in Procs :
        /\ pc[p] \in {"validate", "groom", "index", "publish", "pub_rm",
                      "pub_rename"}
              => \A f \in scratch.files : f.gen = p
        /\ \A f \in snap[p].tree.files : f.gen = p

\* C29: two invocations running at once on one working directory do not
\* disturb each other: when both have ended with a success, references/ci
\* is the whole groomed tree one of them gave to atomic_replace; and no
\* step of one invocation changes the archive the other has fetched and not
\* yet extracted, the scratch directory the other has extracted and not yet
\* published, or the temporary lock file the other has opened and not yet
\* renamed.
C29_ConcurrentInvocationsAreIsolated ==
    /\ []((\A p \in Procs : pc[p] = "exited" /\ outcome[p] = "Done")
            => \E g \in Procs :
                  /\ snap[g].done
                  /\ ci = snap[g].tree
                  /\ \A f \in ci.files : f.groomed)
    /\ [][\A p \in Procs :
             (pc'[p] = pc[p] /\ \E q \in Procs \ {p} : pc'[q] # pc[q])
             => /\ pc[p] = "extract" => archive' = archive
                /\ pc[p] \in {"validate", "groom", "index", "publish",
                              "pub_rm", "pub_rename"}
                      => scratch' = scratch
                /\ pc[p] \in {"lock_write", "lock_rename"}
                      => lockTmp' = lockTmp]_vars

\* C30: link rewriting is idempotent: for a file anywhere under the document
\* root and any link target, rewriting the link that a first pass wrote
\* gives that link again.
C30_LinkRewritingIsIdempotent ==
    (doc.kind = "relink" /\ doc.passes = 2) => doc.twice = doc.once

====
